---------------------------- MODULE Spec2Model ----------------------------
(***************************************************************************)
(* Model of the skincare recommendation engine (app.py): the build_routine *)
(* filtering / selection pipeline and the form-submission handler that     *)
(* guards it.  Text cells are sequences of one-character strings so that   *)
(* pandas' substring matching (str.contains, str.lower) is computed, not   *)
(* assumed.  A DataFrame is a sequence of index labels into the catalogue; *)
(* filtering keeps the labels and their order, as a boolean mask does.     *)
(***************************************************************************)
EXTENDS Integers, Sequences, FiniteSets, TLC

VARIABLES df, form, args, pc, filtered, out, recommended_products,
          unique_products

vars == << df, form, args, pc, filtered, out, recommended_products,
           unique_products >>

\* Largest number of catalogue rows loaded from products.csv.
MaxRows == 4

(***************************************************************************)
(* Text cells.  A cell is either a string or NaN (an empty CSV field).     *)
(***************************************************************************)
Str(s) == [na |-> FALSE, s |-> s]

NaN == [na |-> TRUE, s |-> << >>]

Yes == <<"Y", "e", "s">>

All == <<"A", "l", "l">>

Oily == <<"O", "i", "l", "y">>

Dry == <<"D", "r", "y">>

kw_body == <<"b", "o", "d", "y">>

FaceExcluded ==
  { <<"b", "o", "d", "y", " ", "w", "a", "s", "h">>,
    <<"s", "c", "r", "u", "b">>,
    <<"s", "h", "o", "w", "e", "r", " ", "g", "e", "l">>,
    <<"b", "o", "d", "y", " ", "o", "i", "l", " ", "g", "e", "l">> }

BrightActives ==
  { <<"a", "r", "b", "u", "t", "i", "n">>,
    <<"t", "r", "a", "n", "e", "x", "a", "m", "i", "c">>,
    <<"n", "i", "a", "c", "i", "n", "a", "m", "i", "d", "e">>,
    <<"k", "o", "j", "i", "c">>,
    <<"v", "i", "t", "a", "m", "i", "n", " ", "c">> }

AcneActives ==
  { <<"n", "i", "a", "c", "i", "n", "a", "m", "i", "d", "e">>,
    <<"s", "a", "l", "i", "c", "y", "l", "i", "c">> }

LightTypes ==
  { <<"g", "e", "l">>,
    <<"e", "m", "u", "l", "s", "i", "o", "n">>,
    <<"l", "i", "g", "h", "t">> }

CONCERN_MAPPING ==
  "acne" :> { <<"a", "c", "n", "e">>,
      <<"p", "i", "m", "p", "l", "e">>,
      <<"b", "r", "e", "a", "k", "o", "u", "t">>,
      <<"b", "l", "e", "m", "i", "s", "h">>,
      <<"p", "o", "r", "e">> } @@
  "dark spots / uneven tone" :> { <<"d", "a", "r", "k", " ", "s", "p", "o", "t">>,
      <<"h", "y", "p", "e", "r", "p", "i", "g", "m", "e", "n", "t", "a", "t", "i", "o", "n">>,
      <<"m", "e", "l", "a", "s", "m", "a">>,
      <<"u", "n", "e", "v", "e", "n", " ", "t", "o", "n", "e">>,
      <<"p", "i", "g", "m", "e", "n", "t">> } @@
  "dryness" :> { <<"d", "r", "y", "n", "e", "s", "s">>,
      <<"d", "e", "h", "y", "d", "r", "a", "t", "e", "d">>,
      <<"t", "i", "g", "h", "t">> } @@
  "texture / rough skin" :> { <<"t", "e", "x", "t", "u", "r", "e">>,
      <<"r", "o", "u", "g", "h">>,
      <<"b", "u", "m", "p", "y">> } @@
  "aging" :> { <<"a", "g", "i", "n", "g">>,
      <<"w", "r", "i", "n", "k", "l", "e">>,
      <<"f", "i", "n", "e", " ", "l", "i", "n", "e">>,
      <<"f", "i", "r", "m">> } @@
  "sensitivity" :> { <<"s", "e", "n", "s", "i", "t", "i", "v", "e">>,
      <<"i", "r", "r", "i", "t", "a", "t", "e", "d">>,
      <<"r", "e", "a", "c", "t">>,
      <<"s", "t", "i", "n", "g">> } @@
  "dull" :> { <<"d", "u", "l", "l">>,
      <<"l", "a", "c", "k", " ", "g", "l", "o", "w">> } @@
  "barrier damage" :> { <<"b", "a", "r", "r", "i", "e", "r">>,
      <<"d", "a", "m", "a", "g", "e", "d">>,
      <<"w", "e", "a", "k">> }

LowerChar(c) ==
  CASE c = "A" -> "a"
    [] c = "B" -> "b"
    [] c = "C" -> "c"
    [] c = "D" -> "d"
    [] c = "E" -> "e"
    [] c = "F" -> "f"
    [] c = "G" -> "g"
    [] c = "H" -> "h"
    [] c = "I" -> "i"
    [] c = "J" -> "j"
    [] c = "K" -> "k"
    [] c = "L" -> "l"
    [] c = "M" -> "m"
    [] c = "N" -> "n"
    [] c = "O" -> "o"
    [] c = "P" -> "p"
    [] c = "Q" -> "q"
    [] c = "R" -> "r"
    [] c = "S" -> "s"
    [] c = "T" -> "t"
    [] c = "U" -> "u"
    [] c = "V" -> "v"
    [] c = "W" -> "w"
    [] c = "X" -> "x"
    [] c = "Y" -> "y"
    [] c = "Z" -> "z"
    [] OTHER -> c

Products ==
  <<
     [ product_id |-> "P01",
       name |-> Str(<<"G", "e", "n", "t", "l", "e", " ", "F", "a", "c", "e", " ", "C", "l", "e", "a", "n", "s", "e", "r">>),
       step |-> "1. Cleanse",
       contains_retinol |-> Str(<<"N", "o">>),
       prescripition_only |-> Str(<<"N", "o">>),
       safe_for_sensitive |-> Str(<<"Y", "e", "s">>),
       contains_acid |-> Str(<<"N", "o">>),
       suitable_skin_types |-> Str(<<"A", "l", "l">>),
       key_actives |-> Str(<<"C", "e", "r", "a", "m", "i", "d", "e", "s">>),
       product_type |-> Str(<<"G", "e", "l", " ", "C", "l", "e", "a", "n", "s", "e", "r">>),
       primary_target |-> Str(<<"S", "e", "n", "s", "i", "t", "i", "v", "e", " ", "s", "k", "i", "n">>) ],
     [ product_id |-> "P02",
       name |-> Str(<<"E", "x", "f", "o", "l", "i", "a", "t", "i", "n", "g", " ", "B", "o", "d", "y", " ", "W", "a", "s", "h">>),
       step |-> "1. Cleanse",
       contains_retinol |-> Str(<<"N", "o">>),
       prescripition_only |-> Str(<<"N", "o">>),
       safe_for_sensitive |-> Str(<<"Y", "e", "s">>),
       contains_acid |-> Str(<<"Y", "e", "s">>),
       suitable_skin_types |-> Str(<<"A", "l", "l">>),
       key_actives |-> Str(<<"L", "a", "c", "t", "i", "c", " ", "A", "c", "i", "d">>),
       product_type |-> Str(<<"B", "o", "d", "y", " ", "W", "a", "s", "h">>),
       primary_target |-> Str(<<"R", "o", "u", "g", "h", " ", "t", "e", "x", "t", "u", "r", "e">>) ],
     [ product_id |-> "P03",
       name |-> Str(<<"G", "l", "y", "c", "o", "l", "i", "c", " ", "T", "o", "n", "e", "r">>),
       step |-> "2. Tone/Exfoliate",
       contains_retinol |-> Str(<<"N", "o">>),
       prescripition_only |-> Str(<<"N", "o">>),
       safe_for_sensitive |-> Str(<<"N", "o">>),
       contains_acid |-> Str(<<"Y", "e", "s">>),
       suitable_skin_types |-> Str(<<"O", "i", "l", "y", ",", " ", "C", "o", "m", "b", "i", "n", "a", "t", "i", "o", "n">>),
       key_actives |-> Str(<<"G", "l", "y", "c", "o", "l", "i", "c", " ", "A", "c", "i", "d">>),
       product_type |-> Str(<<"T", "o", "n", "e", "r">>),
       primary_target |-> Str(<<"D", "u", "l", "l", " ", "s", "k", "i", "n">>) ],
     [ product_id |-> "P04",
       name |-> Str(<<"H", "y", "d", "r", "a", "t", "i", "n", "g", " ", "E", "s", "s", "e", "n", "c", "e">>),
       step |-> "2. Tone/Exfoliate",
       contains_retinol |-> Str(<<"N", "o">>),
       prescripition_only |-> Str(<<"N", "o">>),
       safe_for_sensitive |-> Str(<<"Y", "e", "s">>),
       contains_acid |-> Str(<<"N", "o">>),
       suitable_skin_types |-> Str(<<"a", "l", "l", " ", "s", "k", "i", "n", " ", "t", "y", "p", "e", "s">>),
       key_actives |-> Str(<<"N", "i", "a", "c", "i", "n", "a", "m", "i", "d", "e", ",", " ", "C", "e", "n", "t", "e", "l", "l", "a">>),
       product_type |-> Str(<<"E", "s", "s", "e", "n", "c", "e">>),
       primary_target |-> Str(<<"D", "r", "y", "n", "e", "s", "s">>) ],
     [ product_id |-> "P04",
       name |-> Str(<<"H", "y", "d", "r", "a", "t", "i", "n", "g", " ", "E", "s", "s", "e", "n", "c", "e">>),
       step |-> "3. Treat",
       contains_retinol |-> Str(<<"N", "o">>),
       prescripition_only |-> Str(<<"N", "o">>),
       safe_for_sensitive |-> Str(<<"Y", "e", "s">>),
       contains_acid |-> Str(<<"N", "o">>),
       suitable_skin_types |-> Str(<<"a", "l", "l", " ", "s", "k", "i", "n", " ", "t", "y", "p", "e", "s">>),
       key_actives |-> Str(<<"N", "i", "a", "c", "i", "n", "a", "m", "i", "d", "e", ",", " ", "C", "e", "n", "t", "e", "l", "l", "a">>),
       product_type |-> Str(<<"E", "s", "s", "e", "n", "c", "e">>),
       primary_target |-> Str(<<"D", "r", "y", "n", "e", "s", "s">>) ],
     [ product_id |-> "P06",
       name |-> Str(<<"R", "e", "t", "i", "n", "o", "l", " ", "N", "i", "g", "h", "t", " ", "S", "e", "r", "u", "m">>),
       step |-> "3. Treat",
       contains_retinol |-> Str(<<"Y", "e", "s">>),
       prescripition_only |-> Str(<<"N", "o">>),
       safe_for_sensitive |-> Str(<<"Y", "e", "s">>),
       contains_acid |-> Str(<<"N", "o">>),
       suitable_skin_types |-> Str(<<"A", "l", "l">>),
       key_actives |-> Str(<<"R", "e", "t", "i", "n", "o", "l">>),
       product_type |-> NaN,
       primary_target |-> Str(<<"A", "g", "i", "n", "g">>) ],
     [ product_id |-> "P07",
       name |-> Str(<<"S", "a", "l", "i", "c", "y", "l", "i", "c", " ", "S", "p", "o", "t", " ", "G", "e", "l">>),
       step |-> "3. Treat",
       contains_retinol |-> Str(<<"N", "o">>),
       prescripition_only |-> Str(<<"N", "o">>),
       safe_for_sensitive |-> Str(<<"N", "o">>),
       contains_acid |-> Str(<<"Y", "e", "s">>),
       suitable_skin_types |-> Str(<<"O", "i", "l", "y">>),
       key_actives |-> Str(<<"S", "a", "l", "i", "c", "y", "l", "i", "c", " ", "A", "c", "i", "d">>),
       product_type |-> Str(<<"G", "e", "l">>),
       primary_target |-> Str(<<"A", "c", "n", "e">>) ],
     [ product_id |-> "P08",
       name |-> Str(<<"B", "r", "i", "g", "h", "t", "e", "n", "i", "n", "g", " ", "C", "r", "e", "a", "m">>),
       step |-> "3. Treat",
       contains_retinol |-> Str(<<"N", "o">>),
       prescripition_only |-> Str(<<"Y", "e", "s">>),
       safe_for_sensitive |-> Str(<<"N", "o">>),
       contains_acid |-> Str(<<"N", "o">>),
       suitable_skin_types |-> NaN,
       key_actives |-> Str(<<"H", "y", "d", "r", "o", "q", "u", "i", "n", "o", "n", "e", ",", " ", "K", "o", "j", "i", "c", " ", "A", "c", "i", "d">>),
       product_type |-> Str(<<"C", "r", "e", "a", "m">>),
       primary_target |-> Str(<<"D", "a", "r", "k", " ", "s", "p", "o", "t", "s">>) ],
     [ product_id |-> "P09",
       name |-> Str(<<"B", "o", "d", "y", " ", "B", "u", "t", "t", "e", "r">>),
       step |-> "4. Moisturize",
       contains_retinol |-> Str(<<"N", "o">>),
       prescripition_only |-> Str(<<"N", "o">>),
       safe_for_sensitive |-> Str(<<"Y", "e", "s">>),
       contains_acid |-> Str(<<"N", "o">>),
       suitable_skin_types |-> Str(<<"D", "r", "y">>),
       key_actives |-> Str(<<"S", "h", "e", "a", " ", "B", "u", "t", "t", "e", "r">>),
       product_type |-> Str(<<"R", "i", "c", "h", " ", "C", "r", "e", "a", "m">>),
       primary_target |-> Str(<<"D", "r", "y", "n", "e", "s", "s">>) ],
     [ product_id |-> "P10",
       name |-> Str(<<"O", "i", "l", "-", "F", "r", "e", "e", " ", "M", "o", "i", "s", "t", "u", "r", "i", "z", "e", "r">>),
       step |-> "4. Moisturize",
       contains_retinol |-> Str(<<"N", "o">>),
       prescripition_only |-> Str(<<"N", "o">>),
       safe_for_sensitive |-> Str(<<"N", "o">>),
       contains_acid |-> Str(<<"N", "o">>),
       suitable_skin_types |-> Str(<<"A", "l", "l">>),
       key_actives |-> Str(<<"H", "y", "a", "l", "u", "r", "o", "n", "i", "c", " ", "A", "c", "i", "d">>),
       product_type |-> Str(<<"L", "i", "g", "h", "t", " ", "E", "m", "u", "l", "s", "i", "o", "n">>),
       primary_target |-> Str(<<"D", "e", "h", "y", "d", "r", "a", "t", "e", "d", " ", "s", "k", "i", "n">>) ],
     [ product_id |-> "P11",
       name |-> Str(<<"M", "i", "n", "e", "r", "a", "l", " ", "S", "u", "n", "s", "c", "r", "e", "e", "n">>),
       step |-> "5. Protect",
       contains_retinol |-> Str(<<"N", "o">>),
       prescripition_only |-> Str(<<"N", "o">>),
       safe_for_sensitive |-> Str(<<"Y", "e", "s">>),
       contains_acid |-> Str(<<"N", "o">>),
       suitable_skin_types |-> Str(<<"A", "l", "l">>),
       key_actives |-> Str(<<"Z", "i", "n", "c", " ", "O", "x", "i", "d", "e">>),
       product_type |-> Str(<<"S", "u", "n", "s", "c", "r", "e", "e", "n">>),
       primary_target |-> Str(<<"S", "u", "n", " ", "p", "r", "o", "t", "e", "c", "t", "i", "o", "n">>) ]
  >>

Lower(s) == [i \in DOMAIN s |-> LowerChar(s[i])]

\* Series.str.lower(): NaN stays NaN.
str_lower(cell) == IF cell.na THEN cell ELSE Str(Lower(cell.s))

\* p occurs in s as a contiguous substring.
Contains(s, p) ==
  \E i \in 0..(Len(s) - Len(p)) : SubSeq(s, i + 1, i + Len(p)) = p

\* Series.str.contains(pat, case=case, na=na), pat an alternation of the
\* literal patterns pats.
str_contains(cell, pats, case, na) ==
  IF cell.na THEN na
  ELSE IF case THEN \E p \in pats : Contains(cell.s, p)
  ELSE \E p \in pats : Contains(Lower(cell.s), Lower(p))

\* The row of the catalogue with index label i.
Row(i) == Products[df[i]]

\* f[mask]: the labels of f whose catalogue row has a true entry in the
\* boolean mask (indexed by catalogue key), order kept.
Mask(f, mask) ==
  LET T(i) == mask[df[i]]
  IN  SelectSeq(f, T)

\* Increasing sequences of catalogue keys of length n starting above lo.
RECURSIVE Picks(_, _)
Picks(lo, n) ==
  IF n = 0 THEN { << >> }
  ELSE UNION { { << k >> \o t : t \in Picks(k, n - 1) } :
               k \in (lo + 1)..Len(Products) }

\* load_products(): the CSV holds some rows of the catalogue, in order.
Catalogs == UNION { Picks(0, n) : n \in 0..MaxRows }

SkinTypes == { Oily, Dry }

Areas == { "Face", "Body", "Both" }

\* The internal concerns drawn as build_routine arguments.
ConcernChoices == { "acne", "dark spots / uneven tone" }

\* The multiselect's options (the dash of the last one is written "-").
concern_options ==
  { "Acne / breakouts", "Dark spots / hyperpigmentation / melasma",
    "Dryness / dehydration", "Dull skin", "Uneven texture / rough skin",
    "Aging / fine lines", "Sensitivity / irritation", "Damaged barrier",
    "None - just maintaining healthy skin" }

\* The options of the multiselect drawn in the form.
FormChoices ==
  { "Acne / breakouts", "Dark spots / hyperpigmentation / melasma",
    "Dryness / dehydration", "None - just maintaining healthy skin" }

concerns_map ==
  "Acne / breakouts" :> "acne" @@
  "Dark spots / hyperpigmentation / melasma" :> "dark spots / uneven tone" @@
  "Dryness / dehydration" :> "dryness" @@
  "Dull skin" :> "dull" @@
  "Uneven texture / rough skin" :> "texture / rough skin" @@
  "Aging / fine lines" :> "aging" @@
  "Sensitivity / irritation" :> "sensitivity" @@
  "Damaged barrier" :> "barrier damage"

\* Variant of MapConcerns without the "if c in concerns_map" guard.
MapConcerns_NoGuard(selected) ==
  { IF c \in DOMAIN concerns_map THEN concerns_map[c] ELSE "" : c \in selected }

\* [concerns_map.get(c, "") for c in selected_concerns if c in concerns_map]
MapConcerns(selected) ==
  { concerns_map[c] : c \in (selected \cap DOMAIN concerns_map) }

NoArgs ==
  [ skin_type |-> << >>, concerns |-> {}, is_sensitive |-> FALSE,
    is_pregnant |-> FALSE, using_prescription |-> FALSE, area |-> "" ]

NoForm ==
  [ skin_option |-> << >>, selected_concerns |-> {}, sensitive |-> FALSE,
    pregnant |-> FALSE, prescription |-> FALSE, area |-> "" ]

\* One rendered element: st.write / st.info / st.warning / st.success / ...
Line(kind, step, row, note) ==
  [ kind |-> kind, step |-> step, row |-> row, note |-> note ]

(***************************************************************************)
(* The string tests of build_routine, evaluated once per catalogue row.    *)
(***************************************************************************)
\* df['name'].str.lower().str.contains('body wash|scrub|...', na=False)
NameExcludedForFace ==
  [k \in DOMAIN Products |->
     str_contains(str_lower(Products[k].name), FaceExcluded, TRUE, FALSE)]

\* df['name'].str.lower().str.contains('body', na=False)
NameHasBody ==
  [k \in DOMAIN Products |->
     str_contains(str_lower(Products[k].name), { kw_body }, TRUE, FALSE)]

\* ['suitable_skin_types'].str.contains('All', case=False, na=True)
SkinTypesHasAll ==
  [k \in DOMAIN Products |->
     str_contains(Products[k].suitable_skin_types, { All }, FALSE, TRUE)]

\* ['suitable_skin_types'].str.contains(skin_type, case=False, na=True)
SkinTypesHas ==
  [k \in DOMAIN Products |->
     [st \in SkinTypes |->
        str_contains(Products[k].suitable_skin_types, { st }, FALSE, TRUE)]]

\* ['key_actives'].str.contains('arbutin|...|vitamin c', case=False, na=False)
ActivesBright ==
  [k \in DOMAIN Products |->
     str_contains(Products[k].key_actives, BrightActives, FALSE, FALSE)]

\* ['key_actives'].str.contains('niacinamide|salicylic', case=False, na=False)
ActivesAcne ==
  [k \in DOMAIN Products |->
     str_contains(Products[k].key_actives, AcneActives, FALSE, FALSE)]

\* ['product_type'].str.contains('gel|emulsion|light', case=False, na=False)
TypeLight ==
  [k \in DOMAIN Products |->
     str_contains(Products[k].product_type, LightTypes, FALSE, FALSE)]

(***************************************************************************)
(* is_safe and the filters of build_routine.                               *)
(***************************************************************************)
is_safe(row, is_sensitive, is_pregnant, using_prescription) ==
  IF is_pregnant /\ (row.contains_retinol = Str(Yes)
                     \/ row.prescripition_only = Str(Yes)) THEN FALSE
  ELSE IF is_sensitive /\ row.safe_for_sensitive # Str(Yes) THEN FALSE
  ELSE IF using_prescription /\ (row.contains_retinol = Str(Yes)
                                 \/ row.contains_acid = Str(Yes)) THEN FALSE
  ELSE TRUE

AreaFilter(d, area) ==
  LET face == [k \in DOMAIN Products |-> ~ NameExcludedForFace[k]]
      body == NameHasBody
      all == [k \in DOMAIN Products |-> TRUE]
      labels == [i \in 1..Len(d) |-> i]
  IN  IF area = "Face" THEN Mask(labels, face)
      ELSE IF area = "Body" THEN Mask(labels, body)
      ELSE Mask(labels, all)

SafetyFilter(f, is_sensitive, is_pregnant, using_prescription) ==
  LET safe == [k \in DOMAIN Products |->
                 is_safe(Products[k], is_sensitive, is_pregnant,
                         using_prescription)]
  IN  Mask(f, safe)

\* Variant of SkinTypeFilter that keeps every row.
SkinTypeFilter_Skipped(f, skin_type) == f

SkinTypeFilter(f, skin_type) ==
  LET ok == [k \in DOMAIN Products |->
               SkinTypesHasAll[k] \/ SkinTypesHas[k][skin_type]]
  IN  Mask(f, ok)

\* The "relax for sensitive" candidate set, rebuilt from the whole catalogue.
RelaxForSensitive(d) ==
  LET ok == [k \in DOMAIN Products |->
               /\ Products[k].safe_for_sensitive = Str(Yes)
               /\ SkinTypesHasAll[k]]
  IN  Mask([i \in 1..Len(d) |-> i], ok)

StepRows(f, step) ==
  LET ok == [k \in DOMAIN Products |-> Products[k].step = step]
  IN  Mask(f, ok)

(***************************************************************************)
(* The per-step candidate pools from which sample(1) draws.                *)
(***************************************************************************)
\* Variant of CleanserChoices that forgets the step test.
CleanserChoices_AnyStep(f) == f

CleanserChoices(f) == StepRows(f, "1. Cleanse")

TonerChoices(f) ==
  LET toners == StepRows(f, "2. Tone/Exfoliate")
      nonacid == [k \in DOMAIN Products |->
                    Products[k].contains_acid # Str(Yes)]
      gentle == Mask(toners, nonacid)
  IN  IF gentle # << >> THEN gentle ELSE toners

\* Variant of TreatChoices that tests the acne concern first.
TreatChoices_AcneFirst(f, concerns) ==
  LET treats == StepRows(f, "3. Treat")
      bright == Mask(treats, ActivesBright)
      acne_treat == Mask(treats, ActivesAcne)
  IN  IF "acne" \in concerns
        THEN (IF acne_treat # << >> THEN acne_treat ELSE treats)
      ELSE IF "dark spots / uneven tone" \in concerns
        THEN (IF bright # << >> THEN bright ELSE treats)
      ELSE treats

TreatChoices(f, concerns) ==
  LET treats == StepRows(f, "3. Treat")
      bright == Mask(treats, ActivesBright)
      acne_treat == Mask(treats, ActivesAcne)
  IN  IF "dark spots / uneven tone" \in concerns
        THEN (IF bright # << >> THEN bright ELSE treats)
      ELSE IF "acne" \in concerns
        THEN (IF acne_treat # << >> THEN acne_treat ELSE treats)
      ELSE treats

\* The suffix of the Treat line when a product is shown.
TreatNote(concerns) ==
  IF "dark spots / uneven tone" \in concerns THEN "(targets pigmentation)"
  ELSE IF "acne" \in concerns THEN "(controls acne)"
  ELSE ""

\* The Treat line when no step-3 product is a candidate.
TreatAdvice(concerns) ==
  IF "dark spots / uneven tone" \in concerns
    THEN "Niacinamide or tranexamic acid serum for pigmentation."
  ELSE "Consider a hydrating serum."

MoistChoices(f, skin_type) ==
  LET moist == StepRows(f, "4. Moisturize")
      light == Mask(moist, TypeLight)
  IN  IF skin_type = Oily /\ light # << >> THEN light ELSE moist

MoistAdvice(skin_type) ==
  IF skin_type = Dry THEN "Rich cream with ceramides or hyaluronic acid."
  ELSE "Lightweight gel or lotion moisturizer."

\* Variant of RemoveDuplicates that never consults the seen set.
RemoveDuplicates_KeepAll(ps, seen) == ps

\* The "remove duplicates" loop: keep the first row of every product_id.
RECURSIVE RemoveDuplicates(_, _)
RemoveDuplicates(ps, seen) ==
  IF ps = << >> THEN << >>
  ELSE LET pid == Row(Head(ps)).product_id
       IN  IF pid \notin seen
             THEN << Head(ps) >> \o RemoveDuplicates(Tail(ps), seen \cup { pid })
           ELSE RemoveDuplicates(Tail(ps), seen)

\* The elements of the recommended-products grid.
GridLines(unique) ==
  IF unique # << >>
    THEN << Line("write", 0, 0, "Here are the specific products that match your routine:") >>
         \o [k \in 1..Len(unique) |-> Line("card", 0, unique[k], "")]
  ELSE << Line("info", 0, 0, "No exact product matches") >>

\* The "next goals" section.
GoalLines(concerns, skin_type) ==
  << Line("subheader", 0, 0, "Your Next Goals") >>
  \o (IF "acne" \in concerns
        THEN << Line("write", 0, 0, "Fade post-acne marks") >> ELSE << >>)
  \o (IF "dark spots / uneven tone" \in concerns
        THEN << Line("write", 0, 0, "Boost glow"),
                Line("write", 0, 0, "Try gentle exfoliation") >> ELSE << >>)
  \o (IF "dryness" \in concerns \/ skin_type = Dry
        THEN << Line("write", 0, 0, "Layer hyaluronic acid serum") >> ELSE << >>)
  \o << Line("write", 0, 0, "Long-term: retinol"),
        Line("write", 0, 0, "Always: SPF"),
        Line("success", 0, 0, "Re-run this quiz") >>

\* The guard of the form handler: which branch the submission takes.
FormOutcome(f) ==
  IF f.pregnant \/ f.prescription THEN "safety_warning"
  ELSE IF f.sensitive /\ Cardinality(MapConcerns(f.selected_concerns)) > 2
    THEN "guidance_warning"
  ELSE "build_routine"

(***************************************************************************)
(* Initial state: the catalogue is loaded, nothing is submitted.           *)
(***************************************************************************)
Init ==
  /\ df \in Catalogs
  /\ form = NoForm
  /\ args = NoArgs
  /\ pc = "idle"
  /\ filtered = << >>
  /\ out = << >>
  /\ recommended_products = << >>
  /\ unique_products = << >>

(***************************************************************************)
(* Entry points.                                                           *)
(***************************************************************************)
\* build_routine called with arbitrary arguments.
CallBuildRoutine ==
  /\ pc = "idle"
  /\ \E st \in SkinTypes, cs \in SUBSET ConcernChoices, a \in Areas,
        s \in BOOLEAN, p \in BOOLEAN, u \in BOOLEAN :
       args' = [ skin_type |-> st, concerns |-> cs, is_sensitive |-> s,
                 is_pregnant |-> p, using_prescription |-> u, area |-> a ]
  /\ pc' = "area"
  /\ UNCHANGED << df, form, filtered, out, recommended_products,
                  unique_products >>

\* "if submitted:" -- the form handler.
Submit ==
  /\ pc = "idle"
  /\ \E st \in SkinTypes, sel \in SUBSET FormChoices, a \in Areas,
        s \in BOOLEAN, p \in BOOLEAN, u \in BOOLEAN :
       LET f == [ skin_option |-> st, selected_concerns |-> sel,
                  sensitive |-> s, pregnant |-> p, prescription |-> u,
                  area |-> a ]
       IN  /\ form' = f
           /\ IF FormOutcome(f) = "safety_warning"
                THEN /\ out' = << Line("warning", 0, 0, "Safety first!") >>
                     /\ pc' = "done"
                     /\ UNCHANGED args
              ELSE IF FormOutcome(f) = "guidance_warning"
                THEN /\ out' = << Line("warning", 0, 0,
                                       "Multiple concerns + sensitivity") >>
                     /\ pc' = "done"
                     /\ UNCHANGED args
              ELSE /\ args' = [ skin_type |-> st,
                                concerns |-> MapConcerns(sel),
                                is_sensitive |-> s, is_pregnant |-> p,
                                using_prescription |-> u, area |-> a ]
                   /\ pc' = "area"
                   /\ UNCHANGED out
  /\ UNCHANGED << df, filtered, recommended_products, unique_products >>

(***************************************************************************)
(* build_routine, statement by statement.                                  *)
(***************************************************************************)
AreaStep ==
  /\ pc = "area"
  /\ filtered' = AreaFilter(df, args.area)
  /\ pc' = "safety"
  /\ UNCHANGED << df, form, args, out, recommended_products, unique_products >>

SafetyStep ==
  /\ pc = "safety"
  /\ filtered' = SafetyFilter(filtered, args.is_sensitive, args.is_pregnant,
                              args.using_prescription)
  /\ pc' = "skin"
  /\ UNCHANGED << df, form, args, out, recommended_products, unique_products >>

SkinTypeStep ==
  /\ pc = "skin"
  /\ filtered' = SkinTypeFilter(filtered, args.skin_type)
  /\ pc' = "relax"
  /\ UNCHANGED << df, form, args, out, recommended_products, unique_products >>

\* Variant of ShouldRelax that ignores the sensitivity flag.
ShouldRelax_AnyUser(f, is_sensitive) == f = << >>

\* "if filtered.empty and is_sensitive:"
ShouldRelax(f, is_sensitive) == f = << >> /\ is_sensitive

RelaxStep ==
  /\ pc = "relax"
  /\ IF ShouldRelax(filtered, args.is_sensitive)
       THEN /\ out' = Append(out, Line("info", 0, 0, "Being extra gentle"))
            /\ filtered' = RelaxForSensitive(df)
       ELSE UNCHANGED << out, filtered >>
  /\ pc' = "check"
  /\ UNCHANGED << df, form, args, recommended_products, unique_products >>

\* "if filtered.empty:" warn and return, else announce the routine.
EmptyCheck ==
  /\ pc = "check"
  /\ IF filtered = << >>
       THEN /\ out' = Append(out, Line("warning", 0, 0, "No perfect matches found"))
            /\ pc' = "done"
       ELSE /\ out' = Append(out, Line("success", 0, 0, "Here's your routine"))
            /\ pc' = "cleanse"
  /\ UNCHANGED << df, form, args, filtered, recommended_products,
                  unique_products >>

\* Variant of RoutineStep that writes nothing when the pool is empty.
RoutineStep_Silent(n, pool, note, advice) ==
  IF pool # << >>
    THEN \E k \in 1..Len(pool) :
           /\ out' = Append(out, Line("step", n, pool[k], note))
           /\ recommended_products' = Append(recommended_products, pool[k])
  ELSE UNCHANGED << out, recommended_products >>

\* One routine step: a sampled product of the pool, or the generic advice.
RoutineStep(n, pool, note, advice) ==
  IF pool # << >>
    THEN \E k \in 1..Len(pool) :
           /\ out' = Append(out, Line("step", n, pool[k], note))
           /\ recommended_products' = Append(recommended_products, pool[k])
  ELSE /\ out' = Append(out, Line("step", n, 0, advice))
       /\ UNCHANGED recommended_products

Cleanse ==
  /\ pc = "cleanse"
  /\ RoutineStep(1, CleanserChoices(filtered), "",
                 "Gentle cream or gel cleanser (no foaming agents).")
  /\ pc' = "tone"
  /\ UNCHANGED << df, form, args, filtered, unique_products >>

Tone ==
  /\ pc = "tone"
  /\ RoutineStep(2, TonerChoices(filtered), "",
                 "Hydrating, alcohol-free toner (ceramides or centella).")
  /\ pc' = "treat"
  /\ UNCHANGED << df, form, args, filtered, unique_products >>

Treat ==
  /\ pc = "treat"
  /\ RoutineStep(3, TreatChoices(filtered, args.concerns),
                 TreatNote(args.concerns), TreatAdvice(args.concerns))
  /\ pc' = "moisturize"
  /\ UNCHANGED << df, form, args, filtered, unique_products >>

Moisturize ==
  /\ pc = "moisturize"
  /\ RoutineStep(4, MoistChoices(filtered, args.skin_type), "",
                 MoistAdvice(args.skin_type))
  /\ pc' = "protect"
  /\ UNCHANGED << df, form, args, filtered, unique_products >>

Protect ==
  /\ pc = "protect"
  /\ out' = out \o << Line("step", 5, 0, "Broad-spectrum SPF 50+ every morning"),
                      Line("info", 0, 0, "Start one new product at a time"),
                      Line("subheader", 0, 0, "Recommended Products from Your Routine") >>
  /\ pc' = "dedup"
  /\ UNCHANGED << df, form, args, filtered, recommended_products,
                  unique_products >>

Dedup ==
  /\ pc = "dedup"
  /\ unique_products' = RemoveDuplicates(recommended_products, {})
  /\ pc' = "grid"
  /\ UNCHANGED << df, form, args, filtered, out, recommended_products >>

Grid ==
  /\ pc = "grid"
  /\ out' = out \o GridLines(unique_products)
  /\ pc' = "goals"
  /\ UNCHANGED << df, form, args, filtered, recommended_products,
                  unique_products >>

NextGoals ==
  /\ pc = "goals"
  /\ out' = out \o GoalLines(args.concerns, args.skin_type)
  /\ pc' = "done"
  /\ UNCHANGED << df, form, args, filtered, recommended_products,
                  unique_products >>

BuildRoutine ==
  \/ AreaStep \/ SafetyStep \/ SkinTypeStep \/ RelaxStep \/ EmptyCheck
  \/ Cleanse \/ Tone \/ Treat \/ Moisturize \/ Protect
  \/ Dedup \/ Grid \/ NextGoals

\* build_routine as a function of its arguments.
Next == CallBuildRoutine \/ BuildRoutine

Spec == Init /\ [][Next]_vars

\* The application: build_routine is reached through the form handler only.
NextApp == Submit \/ BuildRoutine

SpecApp == Init /\ [][NextApp]_vars

(***************************************************************************)
(* Vocabulary of the properties.                                           *)
(***************************************************************************)
HasLine(kind, note) ==
  \E k \in DOMAIN out : out[k].kind = kind /\ out[k].note = note

IsStepLine(l) == l.kind = "step"

IsCard(l) == l.kind = "card"

\* The routine-step lines rendered so far, in rendering order.
StepLines == SelectSeq(out, IsStepLine)

\* The product cards of the grid rendered so far, in rendering order.
Cards == SelectSeq(out, IsCard)

\* build_routine got past the empty-result check and is rendering a routine.
Rendering ==
  \/ pc \in { "cleanse", "tone", "treat", "moisturize", "protect", "dedup",
              "grid", "goals" }
  \/ pc = "done" /\ HasLine("success", "Here's your routine")

\* build_routine has rendered all of its routine steps.
StepsRendered ==
  \/ pc \in { "dedup", "grid", "goals" }
  \/ pc = "done" /\ HasLine("success", "Here's your routine")

\* The "relax for sensitive" fallback replaced the candidate set.
Relaxed == HasLine("info", "Being extra gentle")

StepName(n) ==
  CASE n = 1 -> "1. Cleanse"
    [] n = 2 -> "2. Tone/Exfoliate"
    [] n = 3 -> "3. Treat"
    [] n = 4 -> "4. Moisturize"
    [] OTHER -> "5. Protect"

InFiltered(i) == \E k \in DOMAIN filtered : filtered[k] = i

\* The catalogue rows the requested area admits, by name.
AreaAdmits ==
  [k \in DOMAIN Products |->
     [a \in Areas |->
        LET n == str_lower(Products[k].name)
        IN  /\ a = "Body" => ~ n.na /\ Contains(n.s, kw_body)
            /\ a = "Face" => n.na \/ \A p \in FaceExcluded : ~ Contains(n.s, p)]]

\* The catalogue rows whose metadata (name or primary target) holds a
\* keyword of the concern.
MatchesConcern ==
  [k \in DOMAIN Products |->
     [c \in DOMAIN CONCERN_MAPPING |->
        \/ str_contains(Products[k].primary_target, CONCERN_MAPPING[c], FALSE, FALSE)
        \/ str_contains(Products[k].name, CONCERN_MAPPING[c], FALSE, FALSE)]]

\* The catalogue rows compatible with a skin type.
SkinCompatible ==
  [k \in DOMAIN Products |->
     [st \in SkinTypes |->
        LET c == Products[k].suitable_skin_types
        IN  \/ c.na
            \/ Contains(Lower(c.s), Lower(All))
            \/ Contains(Lower(c.s), Lower(st))]]

\* The catalogue rows whose skin types name "All" in another spelling.
AllInOtherCase ==
  [k \in DOMAIN Products |->
     LET c == Products[k].suitable_skin_types
     IN  ~ c.na /\ ~ Contains(c.s, All) /\ Contains(Lower(c.s), Lower(All))]

\* C1: every product build_routine recommends passes is_safe for the flags
\* of the call, the "relax for sensitive" fallback included.
C1_RecommendedAreSafe ==
  \A k \in DOMAIN recommended_products :
    LET r == Row(recommended_products[k])
    IN  /\ args.is_pregnant =>
             /\ r.contains_retinol # Str(Yes)
             /\ r.prescripition_only # Str(Yes)
        /\ args.is_sensitive => r.safe_for_sensitive = Str(Yes)
        /\ args.using_prescription =>
             /\ r.contains_retinol # Str(Yes)
             /\ r.contains_acid # Str(Yes)

\* C2: once the candidate set is final and some concern is selected, every
\* candidate matches a keyword of a selected concern (CONCERN_MAPPING) in its
\* metadata (name or primary target), so the concerns restrict the candidates.
C2_CandidatesMatchConcerns ==
  (Rendering /\ args.concerns # {}) =>
    \A k \in DOMAIN filtered :
      \E c \in args.concerns : MatchesConcern[df[filtered[k]]][c]

C4_RecommendedSkinCompatible ==
  \A k \in DOMAIN recommended_products :
    SkinCompatible[df[recommended_products[k]]][args.skin_type]

\* C4 witness: the fallback rebuilt the candidates and a product whose skin
\* types are spelt in lower case was recommended.
C4_Witness ==
  /\ Relaxed
  /\ \E k \in DOMAIN recommended_products :
       AllInOtherCase[df[recommended_products[k]]]

ProductNotes == { "", "(targets pigmentation)", "(controls acne)" }

\* C5: the step lines are rendered one per step in the order 1..5, all five
\* once the routine is rendered; steps 1-4 show either a catalogue product or
\* a generic advice, step 5 always the generic SPF line.
C5_FiveStepsInOrder ==
  LET sl == StepLines
  IN  /\ \A k \in DOMAIN sl : sl[k].step = k
      /\ Len(sl) <= 5
      /\ StepsRendered => Len(sl) = 5
      /\ ~ Rendering => sl = << >>
      /\ \A k \in DOMAIN sl :
           IF k = 5
             THEN /\ sl[k].row = 0
                  /\ sl[k].note = "Broad-spectrum SPF 50+ every morning"
           ELSE \/ sl[k].row \in 1..Len(df) /\ sl[k].note \in ProductNotes
                \/ sl[k].row = 0 /\ sl[k].note \notin ProductNotes

\* C5 witness: a finished routine with both a product step and an advice step.
C5_Witness ==
  LET sl == StepLines
  IN  /\ pc = "done"
      /\ Len(sl) = 5
      /\ \E j, k \in 1..4 : sl[j].row # 0 /\ sl[k].row = 0

\* C6: the shortlist holds at most one product per step and at most four in
\* all; a step's product is a candidate row of that step, and a step shows a
\* product exactly when the candidate set has a row of that step.
C6_ShortlistPerStep ==
  LET sl == StepLines
      shown == SelectSeq(sl, LAMBDA l : l.row # 0)
  IN  /\ Len(recommended_products) <= 4
      /\ recommended_products = [k \in DOMAIN shown |-> shown[k].row]
      /\ \A j, k \in DOMAIN sl : sl[j].step = sl[k].step => j = k
      /\ \A k \in DOMAIN sl :
           sl[k].step \in 1..4 =>
             /\ sl[k].row # 0 => /\ InFiltered(sl[k].row)
                                 /\ Row(sl[k].row).step = StepName(sl[k].step)
             /\ sl[k].row # 0 <=>
                  \E i \in DOMAIN filtered :
                    Row(filtered[i]).step = StepName(sl[k].step)

\* C6 witness: all four steps show a product.
C6_Witness ==
  /\ pc = "done"
  /\ Len(recommended_products) = 4

\* The position of the first chosen row with the product_id of row i.
FirstOf(i) ==
  CHOOSE k \in DOMAIN recommended_products :
    /\ Row(recommended_products[k]).product_id = Row(i).product_id
    /\ \A j \in 1..(k - 1) :
         Row(recommended_products[j]).product_id # Row(i).product_id

Deduplicated == pc \in { "grid", "goals" } \/ (pc = "done" /\ Rendering)

GridRendered == pc = "goals" \/ (pc = "done" /\ Rendering)

\* C7: after de-duplication the grid has no two entries with one product_id,
\* has every chosen product_id, in order of first occurrence; it is empty,
\* with the "No exact product matches" message, exactly when no step chose a
\* product.
C7_GridDeduplicated ==
  /\ Deduplicated =>
       /\ \A j, k \in DOMAIN unique_products :
            Row(unique_products[j]).product_id = Row(unique_products[k]).product_id
              => j = k
       /\ { Row(unique_products[k]).product_id : k \in DOMAIN unique_products }
            = { Row(recommended_products[k]).product_id :
                  k \in DOMAIN recommended_products }
       /\ \A k \in DOMAIN unique_products :
            unique_products[k] = recommended_products[FirstOf(unique_products[k])]
       /\ \A j, k \in DOMAIN unique_products :
            j < k => FirstOf(unique_products[j]) < FirstOf(unique_products[k])
  /\ GridRendered =>
       /\ Cards = [k \in DOMAIN unique_products |->
                     Line("card", 0, unique_products[k], "")]
       /\ HasLine("info", "No exact product matches")
            <=> recommended_products = << >>
       /\ Cards = << >> <=> recommended_products = << >>

\* C7 witness: one product was chosen in two steps and the grid shows it once.
C7_Witness ==
  /\ GridRendered
  /\ Len(unique_products) < Len(recommended_products)
  /\ Len(unique_products) >= 2

\* The candidate set before the fallback, recomputed from the arguments.
BeforeRelax ==
  SkinTypeFilter(
    SafetyFilter(AreaFilter(df, args.area), args.is_sensitive,
                 args.is_pregnant, args.using_prescription),
    args.skin_type)

NoneOption == "None - just maintaining healthy skin"

\* The branch the claim prescribes for a submitted form.
MayBuild(f) ==
  /\ ~ f.pregnant
  /\ ~ f.prescription
  /\ ~ (f.sensitive /\ Cardinality(f.selected_concerns \ { NoneOption }) > 2)

\* C9: the form handler calls build_routine only for a user neither pregnant
\* nor on prescription and not both sensitive and with more than two mapped
\* concerns; otherwise it shows exactly one warning and no product.
C9_FormGuardsBuildRoutine ==
  pc # "idle" =>
    /\ args # NoArgs <=> MayBuild(form)
    /\ ~ MayBuild(form) =>
         /\ pc = "done"
         /\ Len(out) = 1
         /\ out[1].kind = "warning"
         /\ out[1].note \in { "Safety first!", "Multiple concerns + sensitivity" }
         /\ recommended_products = << >>
         /\ unique_products = << >>
    /\ args # NoArgs =>
         /\ ~ args.is_pregnant
         /\ ~ args.using_prescription
         /\ args.is_sensitive = form.sensitive
         /\ args.skin_type = form.skin_option
         /\ args.area = form.area
         /\ Cardinality(args.concerns)
              = Cardinality(form.selected_concerns \ { NoneOption })

\* C9 witness: a sensitive user with two concerns and the "None" option
\* selected gets a routine with a product.
C9_Witness ==
  /\ form.sensitive
  /\ NoneOption \in form.selected_concerns
  /\ Cardinality(form.selected_concerns) = 3
  /\ recommended_products # << >>

\* The catalogue rows whose key_actives name a brightening active.
Brightening ==
  [k \in DOMAIN Products |->
     LET c == Products[k].key_actives
     IN  ~ c.na /\ \E p \in BrightActives : Contains(Lower(c.s), p)]

\* The catalogue rows whose key_actives name an acne active.
AcneControl ==
  [k \in DOMAIN Products |->
     LET c == Products[k].key_actives
     IN  ~ c.na /\ \E p \in AcneActives : Contains(Lower(c.s), p)]

IsBright(i) == Brightening[df[i]]

IsAcneActive(i) == AcneControl[df[i]]

\* Some step-3 candidate has a true entry in the table.
TreatCandidate(table) ==
  \E i \in DOMAIN filtered :
    Row(filtered[i]).step = "3. Treat" /\ table[df[filtered[i]]]

\* C10: in the Treat step pigmentation has priority over acne: with "dark
\* spots / uneven tone" selected the product is a brightening one whenever a
\* step-3 candidate is, and is labelled "(targets pigmentation)"; the acne
\* preference and label apply only without it; with an empty preferred subset
\* any step-3 candidate is chosen under the same label.
C10_TreatPriority ==
  LET sl == StepLines
  IN  \A k \in DOMAIN sl :
        (sl[k].step = 3 /\ sl[k].row # 0) =>
          /\ InFiltered(sl[k].row) /\ Row(sl[k].row).step = "3. Treat"
          /\ IF "dark spots / uneven tone" \in args.concerns
               THEN /\ sl[k].note = "(targets pigmentation)"
                    /\ TreatCandidate(Brightening) => IsBright(sl[k].row)
             ELSE IF "acne" \in args.concerns
               THEN /\ sl[k].note = "(controls acne)"
                    /\ TreatCandidate(AcneControl) => IsAcneActive(sl[k].row)
             ELSE sl[k].note = ""

\* C10 witness: acne and dark spots are both selected, the candidates hold an
\* acne-only treatment and a brightening one, and the brightening one is shown.
C10_Witness ==
  /\ args.concerns = { "acne", "dark spots / uneven tone" }
  /\ TreatCandidate([k \in DOMAIN Products |-> AcneControl[k] /\ ~ Brightening[k]])
  /\ LET sl == StepLines
     IN  \E k \in DOMAIN sl :
           /\ sl[k].step = 3
           /\ sl[k].row # 0
           /\ IsBright(sl[k].row)
           /\ ~ IsAcneActive(sl[k].row)
=============================================================================
